---- MODULE Spec2Model ----
(***************************************************************************)
(* Legislation extractor of the orientATIon notebooks                      *)
(* (notebooks/kc_faq_rag_langchain NSYR_PS.ipynb): index discovery         *)
(* (extract_urls), document extraction (extract_legislation_data,          *)
(* stringify_children) and the batch run of the notebook's cells           *)
(* (save_urls_to_file, extract_from_urls, save_data_to_file).              *)
(*                                                                         *)
(* Text is a sequence of one-character strings; a markup lexeme such as    *)
(* "<b>" or "&amp;" is one element of such a sequence.  A parsed page is   *)
(* a tree of nodes [tag, attrs, text, kids]; a text node has tag "#text".  *)
(* A call's outcome is Return(v) or Raise(e).  A Python str content block  *)
(* is [kind |-> "text", ...], a dict block is [kind |-> "section", ...].   *)
(* A JSON file holds the text json.dump wrote, not the value dumped.       *)
(* CreateInferenceModifier of notebooks/utils.py and extract_unique_urls   *)
(* of the question answering cells are modelled beside it.                 *)
(***************************************************************************)
EXTENDS Naturals, Sequences, FiniteSets, TLC

VARIABLES
    pc,                \* position of the run
    response,          \* what the last requests.get produced
    result,            \* outcome of the last extract_urls / extract_legislation_data
    urlFile,           \* National_Legislation_TR.json: <<>> or <<JSON text>>
    legislation_urls,  \* the driver's legislation_urls
    urls,              \* the driver's urls
    idx,               \* urls consumed by the loop of extract_from_urls
    legislation_data,  \* the accumulator of extract_from_urls
    data,              \* save_data_to_file's data: <<>> until the loop returned
    corpusFile,        \* National_Legislation_Content_TR.json: <<>> or <<JSON text>>
    corpusWrites,      \* number of writes of the corpus file in this run
    dirExists,         \* ../data/processed/legislation_data exists
    fetchLog,          \* the URLs requested so far, in order
    modifierCall,      \* the arguments of the call of CreateInferenceModifier
    chainResponse      \* the response handed to extract_unique_urls

vars == <<pc, response, result, urlFile, legislation_urls, urls, idx,
          legislation_data, data, corpusFile, corpusWrites, dirExists,
          fetchLog, modifierCall, chainResponse>>

-----------------------------------------------------------------------------
(* Bounds of the model *)

MaxCards == 2

MaxSections == 2

-----------------------------------------------------------------------------
(* Outcomes of a call *)

Return(v) == [raised |-> FALSE, value |-> v]

Raise(e) == [raised |-> TRUE, exc |-> e]

-----------------------------------------------------------------------------
(* Text *)

Whitespace == {" ", "\n"}

RECURSIVE lstrip(_)
lstrip(s) ==
    IF s # <<>> /\ Head(s) \in Whitespace THEN lstrip(Tail(s)) ELSE s

RECURSIVE rstrip(_)
rstrip(s) ==
    IF s # <<>> /\ s[Len(s)] \in Whitespace
    THEN rstrip(SubSeq(s, 1, Len(s) - 1))
    ELSE s

strip(s) == rstrip(lstrip(s))

RECURSIVE Join(_)
Join(parts) ==
    IF parts = <<>> THEN <<>> ELSE Head(parts) \o Join(Tail(parts))

StartsWith(s, d) == Len(s) >= Len(d) /\ SubSeq(s, 1, Len(d)) = d

\* s.split(d)[0]: the part of s before the first occurrence of d
\* variant: the title is cut at the first hyphen, spaces or not
RECURSIVE SplitFirstBareHyphen(_, _)
SplitFirstBareHyphen(s, d) ==
    IF s = <<>> \/ Head(s) = d[2] THEN <<>>
    ELSE <<Head(s)>> \o SplitFirstBareHyphen(Tail(s), d)

RECURSIVE SplitFirst(_, _)
SplitFirst(s, d) ==
    IF s = <<>> \/ StartsWith(s, d) THEN <<>>
    ELSE <<Head(s)>> \o SplitFirst(Tail(s), d)

TitleDelimiter == <<" ", "-", " ">>

-----------------------------------------------------------------------------
(* Parsed markup (BeautifulSoup tree) *)

NoAttrs == [none |-> ""]

Text(s) == [tag |-> "#text", attrs |-> NoAttrs, text |-> s, kids |-> <<>>]

Elem(t, a, k) == [tag |-> t, attrs |-> a, text |-> <<>>, kids |-> k]

IsText(n) == n.tag = "#text"

HasAttr(n, a) == a \in DOMAIN n.attrs

HasClass(n, c) == HasAttr(n, "class") /\ n.attrs.class = c

\* all nodes below a node, in document order
RECURSIVE Descendants(_)
Descendants(n) ==
    Join([i \in 1..Len(n.kids) |-> <<n.kids[i]>> \o Descendants(n.kids[i])])

\* Tag.string: the single string below a tag, None (here <<>>) otherwise;
\* the option is <<>> for None and <<s>> for a string s
RECURSIVE NodeString(_)
NodeString(n) ==
    IF IsText(n) THEN <<n.text>>
    ELSE IF Len(n.kids) # 1 THEN <<>>
    ELSE NodeString(n.kids[1])

\* entity substitution of the minimal output formatter
RECURSIVE Escape(_)
Escape(s) ==
    IF s = <<>> THEN <<>>
    ELSE (CASE Head(s) = "&" -> <<"&amp;">>
            [] Head(s) = "<" -> <<"&lt;">>
            [] Head(s) = ">" -> <<"&gt;">>
            [] OTHER -> <<Head(s)>>) \o Escape(Tail(s))

\* the attributes of a start tag; the quotes are characters of their own
AttrMarkup(n) ==
    LET One(a) == IF HasAttr(n, a) THEN <<" " \o a \o "=", "\"", n.attrs[a], "\"">>
                  ELSE <<>>
    IN  One("id") \o One("class") \o One("href")

\* Tag.decode(): the markup of a node, its own tag included
RECURSIVE Decode(_)
Decode(n) ==
    IF IsText(n) THEN Escape(n.text)
    ELSE (IF AttrMarkup(n) = <<>> THEN <<"<" \o n.tag \o ">">>
          ELSE <<"<" \o n.tag>> \o AttrMarkup(n) \o <<">">>)
         \o Join([i \in 1..Len(n.kids) |-> Decode(n.kids[i])])
         \o <<"</" \o n.tag \o ">">>

\* str(x): a NavigableString is its own text, a Tag is decoded
Str(n) == IF IsText(n) THEN n.text ELSE Decode(n)

\* get_text(strip=True): the stripped strings below a node, empty ones dropped
GetTextStrip(n) ==
    LET d == Descendants(n)
    IN  Join([i \in 1..Len(d) |-> IF IsText(d[i]) THEN strip(d[i].text) ELSE <<>>])

\* find(tag): first descendant with the tag, as an option
FindTag(n, t) ==
    LET IsT(x) == x.tag = t
        m == SelectSeq(Descendants(n), IsT)
    IN  IF m = <<>> THEN <<>> ELSE <<m[1]>>

\* find_all(tag, class_=c): every descendant with the tag and the class
FindAllClass(n, t, c) ==
    LET IsTC(x) == x.tag = t /\ HasClass(x, c)
    IN  SelectSeq(Descendants(n), IsTC)

\* find(tag, class_=c)
FindClass(n, t, c) ==
    LET m == FindAllClass(n, t, c)
    IN  IF m = <<>> THEN <<>> ELSE <<m[1]>>

\* find("div", id=i)
FindId(n, t, i) ==
    LET IsTI(x) == x.tag = t /\ HasAttr(x, "id") /\ x.attrs.id = i
        m == SelectSeq(Descendants(n), IsTI)
    IN  IF m = <<>> THEN <<>> ELSE <<m[1]>>

-----------------------------------------------------------------------------
(* requests.get: the request raised (ok is FALSE), or it returned a response of
   some HTTP status whose text parses to a page *)

FetchFailed == [ok |-> FALSE]

FetchedStatus(status, soup) == [ok |-> TRUE, status |-> status, soup |-> soup]

Fetched(soup) == FetchedStatus(200, soup)

-----------------------------------------------------------------------------
(* stringify_children *)

Truthy(opt) == opt # <<>> /\ opt[1] # <<>>

stringify_children(node) ==
    LET parts == (IF Truthy(NodeString(node)) THEN <<node>> ELSE <<>>) \o node.kids
    IN  Join([i \in 1..Len(parts) |-> Str(parts[i])])

-----------------------------------------------------------------------------
(* extract_urls *)

\* class values that contain "ps-document-card-type-legislation"
CardClasses ==
    {"ps-document-card-type-legislation", "ps-document-card-type-legislation-wide"}

\* data.select('div[class*="ps-document-card-type-legislation"]')
SelectCards(container) ==
    LET IsCard(x) == x.tag = "div" /\ HasAttr(x, "class") /\ x.attrs.class \in CardClasses
    IN  SelectSeq(Descendants(container), IsCard)

\* variant: urls.insert(0, ...) in place of urls.append(...)
RECURSIVE CardLoopInsertFirst(_, _)
CardLoopInsertFirst(cards, acc) ==
    IF cards = <<>> THEN Return(acc)
    ELSE LET card == Head(cards)
             h2 == FindTag(card, "h2")
             a == FindTag(card, "a")
         IN  IF h2 = <<>> THEN Raise("AttributeError")
             ELSE IF a = <<>> THEN Raise("TypeError")
             ELSE IF ~HasAttr(a[1], "href") THEN Raise("KeyError")
             ELSE CardLoopInsertFirst(Tail(cards),
                           <<[name |-> GetTextStrip(h2[1]),
                              link |-> a[1].attrs.href]>> \o acc)

\* variant: a card without heading or link is passed over
RECURSIVE CardLoopSkipMalformed(_, _)
CardLoopSkipMalformed(cards, acc) ==
    IF cards = <<>> THEN Return(acc)
    ELSE LET card == Head(cards)
             h2 == FindTag(card, "h2")
             a == FindTag(card, "a")
         IN  IF h2 = <<>> \/ a = <<>> \/ ~HasAttr(a[1], "href")
             THEN CardLoopSkipMalformed(Tail(cards), acc)
             ELSE CardLoopSkipMalformed(Tail(cards),
                           Append(acc, [name |-> GetTextStrip(h2[1]),
                                        link |-> a[1].attrs.href]))

\* the loop over the cards, entries appended in card order
RECURSIVE CardLoop(_, _)
CardLoop(cards, acc) ==
    IF cards = <<>> THEN Return(acc)
    ELSE LET card == Head(cards)
             h2 == FindTag(card, "h2")
             a == FindTag(card, "a")
         IN  IF h2 = <<>> THEN Raise("AttributeError")
             ELSE IF a = <<>> THEN Raise("TypeError")
             ELSE IF ~HasAttr(a[1], "href") THEN Raise("KeyError")
             ELSE CardLoop(Tail(cards),
                           Append(acc, [name |-> GetTextStrip(h2[1]),
                                        link |-> a[1].attrs.href]))

\* variant: a missing container is taken for a page without cards
extract_urls_empty_if_missing(resp) ==
    IF ~resp.ok THEN Raise("RequestException")
    ELSE LET container == FindId(resp.soup, "div", "nav-national-legislation")
         IN  IF container = <<>> THEN Return(<<>>)
             ELSE CardLoop(SelectCards(container[1]), <<>>)

extract_urls(resp) ==
    IF ~resp.ok THEN Raise("RequestException")
    ELSE LET container == FindId(resp.soup, "div", "nav-national-legislation")
         IN  IF container = <<>> THEN Raise("AttributeError")
             ELSE CardLoop(SelectCards(container[1]), <<>>)

-----------------------------------------------------------------------------
(* extract_legislation_data *)

TextBlock(s) == [kind |-> "text", text |-> s]

SectionBlock(t, c) == [kind |-> "section", section |-> t, content |-> c]

\* variant: the loop is left after its first item
AccordionLoopFirstOnly(cards, all_content) ==
    IF cards = <<>> THEN Return(all_content)
    ELSE LET card == Head(cards)
             title_element == FindTag(card, "button")
             content_element == FindClass(card, "div", "accordion-body")
         IN  IF title_element = <<>> THEN Raise("AttributeError")
             ELSE IF content_element = <<>> THEN Raise("AttributeError")
             ELSE Return(Append(all_content,
                           SectionBlock(GetTextStrip(title_element[1]),
                                        stringify_children(content_element[1]))))

\* variant: the loop ends at an item without button or body
RECURSIVE AccordionLoopStopAtMalformed(_, _)
AccordionLoopStopAtMalformed(cards, all_content) ==
    IF cards = <<>> THEN Return(all_content)
    ELSE LET card == Head(cards)
             title_element == FindTag(card, "button")
             content_element == FindClass(card, "div", "accordion-body")
         IN  IF title_element = <<>> \/ content_element = <<>> THEN Return(all_content)
             ELSE AccordionLoopStopAtMalformed(Tail(cards),
                    Append(all_content,
                           SectionBlock(GetTextStrip(title_element[1]),
                                        stringify_children(content_element[1]))))

\* the loop over the accordion items, one dict appended per item
RECURSIVE AccordionLoop(_, _)
AccordionLoop(cards, all_content) ==
    IF cards = <<>> THEN Return(all_content)
    ELSE LET card == Head(cards)
             title_element == FindTag(card, "button")
             content_element == FindClass(card, "div", "accordion-body")
         IN  IF title_element = <<>> THEN Raise("AttributeError")
             ELSE IF content_element = <<>> THEN Raise("AttributeError")
             ELSE AccordionLoop(Tail(cards),
                    Append(all_content,
                           SectionBlock(GetTextStrip(title_element[1]),
                                        stringify_children(content_element[1]))))

\* variant: all_content.extend(children) in place of one appended string
BlockTextContentExtend(soup) ==
    LET block_text == FindClass(soup, "section", "paragraph-text")
    IN  IF block_text # <<>>
        THEN [i \in 1..Len(block_text[1].kids) |-> TextBlock(Str(block_text[1].kids[i]))]
        ELSE <<>>

\* variant: an empty string is not appended
BlockTextContentSkipEmpty(soup) ==
    LET block_text == FindClass(soup, "section", "paragraph-text")
    IN  IF block_text # <<>> /\ stringify_children(block_text[1]) # <<>>
        THEN <<TextBlock(stringify_children(block_text[1]))>>
        ELSE <<>>

\* the block-text part: all_content = [] and the paragraph-text section
BlockTextContent(soup) ==
    LET block_text == FindClass(soup, "section", "paragraph-text")
    IN  IF block_text # <<>>
        THEN <<TextBlock(stringify_children(block_text[1]))>>
        ELSE <<>>

\* the accordion part, appended to what the block-text part left
AccordionContent(soup, all_content) ==
    LET accordion == FindClass(soup, "div", "accordion")
    IN  IF accordion # <<>>
        THEN AccordionLoop(FindAllClass(accordion[1], "div", "accordion-item"),
                           all_content)
        ELSE Return(all_content)

\* variant: the accordion is handled before the block text
AllContentAccordionFirst(soup) ==
    LET sections == AccordionContent(soup, <<>>)
    IN  IF sections.raised THEN sections
        ELSE Return(sections.value \o BlockTextContent(soup))

\* variant: find_all in place of find, one string per paragraph-text section
AllContentEverySection(soup) ==
    LET found == FindAllClass(soup, "section", "paragraph-text")
    IN  AccordionContent(soup,
            [i \in 1..Len(found) |-> TextBlock(stringify_children(found[i]))])

AllContent(soup) == AccordionContent(soup, BlockTextContent(soup))

extract_legislation_data(resp, u) ==
    IF ~resp.ok THEN Raise("RequestException")
    ELSE LET soup == resp.soup
             title == FindTag(soup, "title")
             all_content == AllContent(soup)
         IN  IF title = <<>> \/ NodeString(title[1]) = <<>> THEN Raise("AttributeError")
             ELSE IF all_content.raised THEN all_content
             ELSE Return([title |-> SplitFirst(NodeString(title[1])[1], TitleDelimiter),
                          content |-> all_content.value,
                          url |-> u])

-----------------------------------------------------------------------------
(* json.dump(data, outfile, indent=4, ensure_ascii=False) and the reading back
   of what it wrote.  A JSON text is kept as its values, every string as the
   characters of its literal, quotes and escapes included; the white space of
   the indentation is left out. *)

\* a character outside ASCII (s with cedilla), named by its code point
SCedilla == "U+015F"

\* variant: ensure_ascii left at its default, characters outside ASCII escaped
RECURSIVE JsonEscapeAscii(_)
JsonEscapeAscii(s) ==
    IF s = <<>> THEN <<>>
    ELSE (CASE Head(s) = "\"" -> <<"\\", "\"">>
            [] Head(s) = "\\" -> <<"\\", "\\">>
            [] Head(s) = "\n" -> <<"\\", "n">>
            [] Head(s) = SCedilla -> <<"\\", "u015f">>
            [] OTHER -> <<Head(s)>>) \o JsonEscapeAscii(Tail(s))

\* the escapes of a string literal: quote, backslash, control characters
RECURSIVE JsonEscape(_)
JsonEscape(s) ==
    IF s = <<>> THEN <<>>
    ELSE (CASE Head(s) = "\"" -> <<"\\", "\"">>
            [] Head(s) = "\\" -> <<"\\", "\\">>
            [] Head(s) = "\n" -> <<"\\", "n">>
            [] OTHER -> <<Head(s)>>) \o JsonEscape(Tail(s))

JsonString(s) == [type |-> "string", lit |-> <<"\"">> \o JsonEscape(s) \o <<"\"">>]

JsonArray(items) == [type |-> "array", items |-> items]

JsonObject(members) == [type |-> "object", members |-> members]

Member(k, v) == [key |-> JsonString(<<k>>), value |-> v]

\* a content block: a str, or a dict of section and content
DumpBlock(b) ==
    IF b.kind = "text" THEN JsonString(b.text)
    ELSE JsonObject(<<Member("section", JsonString(b.section)),
                      Member("content", JsonString(b.content))>>)

DumpDocument(d) ==
    JsonObject(<<Member("title", JsonString(d.title)),
                 Member("content",
                        JsonArray([i \in 1..Len(d.content) |-> DumpBlock(d.content[i])])),
                 Member("url", JsonString(<<d.url>>))>>)

\* save_data_to_file: json.dump of the list of documents
json_dump_data(docs) == JsonArray([i \in 1..Len(docs) |-> DumpDocument(docs[i])])

DumpEntry(e) ==
    JsonObject(<<Member("name", JsonString(e.name)),
                 Member("link", JsonString(<<e.link>>))>>)

\* save_urls_to_file: json.dump of the list of entries
json_dump_urls(entries) == JsonArray([i \in 1..Len(entries) |-> DumpEntry(entries[i])])

\* the scan of a string literal after its opening quote: the characters up to
\* the first quote that is not escaped, the escapes undone
ScanFailed == [ok |-> FALSE, value |-> <<>>, rest |-> <<>>]

RECURSIVE ScanString(_)
ScanString(s) ==
    IF s = <<>> THEN ScanFailed
    ELSE IF Head(s) = "\"" THEN [ok |-> TRUE, value |-> <<>>, rest |-> Tail(s)]
    ELSE IF Head(s) = "\n" THEN ScanFailed
    ELSE IF Head(s) = "\\"
         THEN IF Len(s) < 2 \/ s[2] \notin {"\"", "\\", "n", "u015f"} THEN ScanFailed
              ELSE LET r == ScanString(Tail(Tail(s)))
                       c == CASE s[2] = "n" -> "\n"
                              [] s[2] = "u015f" -> SCedilla
                              [] OTHER -> s[2]
                   IN  IF r.ok THEN [r EXCEPT !.value = <<c>> \o r.value] ELSE ScanFailed
    ELSE LET r == ScanString(Tail(s))
         IN  IF r.ok THEN [r EXCEPT !.value = <<Head(s)>> \o r.value] ELSE ScanFailed

\* the str a JSON value stands for, as an option: none if it is no string or
\* its literal does not end at its closing quote
LoadString(j) ==
    IF j.type # "string" \/ j.lit = <<>> \/ Head(j.lit) # "\"" THEN <<>>
    ELSE LET r == ScanString(Tail(j.lit))
         IN  IF r.ok /\ r.rest = <<>> THEN <<r.value>> ELSE <<>>

\* the value of an object's member of a key, as an option
Lookup(j, k) ==
    LET IsK(m) == LoadString(m.key) = <<<<k>>>>
        found == IF j.type = "object" THEN SelectSeq(j.members, IsK) ELSE <<>>
    IN  IF found = <<>> THEN <<>> ELSE <<found[Len(found)].value>>

LoadMember(j, k) == IF Lookup(j, k) = <<>> THEN <<>> ELSE LoadString(Lookup(j, k)[1])

LoadBlock(j) ==
    IF j.type = "string"
    THEN (IF LoadString(j) = <<>> THEN <<>> ELSE <<TextBlock(LoadString(j)[1])>>)
    ELSE IF LoadMember(j, "section") = <<>> \/ LoadMember(j, "content") = <<>> THEN <<>>
    ELSE <<SectionBlock(LoadMember(j, "section")[1], LoadMember(j, "content")[1])>>

LoadBlocks(j) ==
    IF j.type # "array" \/ \E i \in 1..Len(j.items) : LoadBlock(j.items[i]) = <<>> THEN <<>>
    ELSE <<[i \in 1..Len(j.items) |-> LoadBlock(j.items[i])[1]]>>

LoadDocument(j) ==
    LET title == LoadMember(j, "title")
        content == IF Lookup(j, "content") = <<>> THEN <<>>
                   ELSE LoadBlocks(Lookup(j, "content")[1])
        url == LoadMember(j, "url")
    IN  IF title = <<>> \/ content = <<>> \/ url = <<>> \/ Len(url[1]) # 1 THEN <<>>
        ELSE <<[title |-> title[1], content |-> content[1], url |-> url[1][1]]>>

\* json.load of the corpus file
json_load_data(j) ==
    IF j.type # "array" \/ \E i \in 1..Len(j.items) : LoadDocument(j.items[i]) = <<>>
    THEN Raise("JSONDecodeError")
    ELSE Return([i \in 1..Len(j.items) |-> LoadDocument(j.items[i])[1]])

-----------------------------------------------------------------------------
(* Pages the site may serve *)

Attr(k, v) == [x \in {k} |-> v]

H2(s) == Elem("h2", NoAttrs, <<Text(s)>>)

Anchor(href) == Elem("a", Attr("href", href), <<Text(<<"a">>)>>)

AnchorNoHref == Elem("a", NoAttrs, <<Text(<<"a">>)>>)

Card(c, k) == Elem("div", Attr("class", c), k)

ListingUrl == "https://multecihukuku.net/mevzuat/?document-type=ulusal-mevzuat"

Links == {"/doc/health", "/doc/labor"}

CardTitles == {<<"h">>, <<" ", "l", "\n">>}

H2Options == {<<>>} \cup {<<H2(t)>> : t \in CardTitles}

AnchorOptions == {<<>>, <<AnchorNoHref>>} \cup {<<Anchor(l)>> : l \in Links}

ValidCards ==
    {Card("ps-document-card-type-legislation", <<H2(t), Anchor(l)>>) :
        t \in CardTitles, l \in Links}

AllCards ==
    {Card("ps-document-card-type-legislation", h \o a) :
        h \in H2Options, a \in AnchorOptions}
    \cup {Card("ps-document-card-type-legislation-wide",
               <<H2(<<"h">>), Anchor("/doc/health")>>)}

SeqsUpTo(S, n) == UNION {[1..k -> S] : k \in 0..n}

Container(cards) == Elem("div", Attr("id", "nav-national-legislation"), cards)

Document(k) == Elem("[document]", NoAttrs, k)

ListingPage(cards) ==
    Document(<<Elem("title", NoAttrs, <<Text(<<"m">>)>>), Container(cards)>>)

\* a page without the container: changed markup, or an error page
NoContainerPage == Document(<<Elem("title", NoAttrs, <<Text(<<"4", "0", "4">>)>>)>>)

ListingResponsesOf(cards) ==
    {FetchFailed, Fetched(NoContainerPage)}
    \cup {Fetched(ListingPage(c)) : c \in SeqsUpTo(cards, MaxCards)}

\* changed markup: the cards are there, under a container of another id
RenamedContainerPage ==
    Document(<<Elem("title", NoAttrs, <<Text(<<"m">>)>>),
               Elem("div", Attr("id", "nav-legislation"),
                    <<Card("ps-document-card-type-legislation",
                           <<H2(<<"h">>), Anchor("/doc/health")>>)>>)>>)

\* answers of a non-success status: an error page, an empty body
ErrorResponses ==
    {FetchedStatus(404, NoContainerPage), FetchedStatus(500, Document(<<>>))}

\* a listing page that links to a second page of cards
NextPageUrl == "https://multecihukuku.net/mevzuat/page/2/?document-type=ulusal-mevzuat"

PaginatedListingPage(cards) ==
    Document(<<Elem("title", NoAttrs, <<Text(<<"m">>)>>), Container(cards),
               Elem("a", [class |-> "next", href |-> NextPageUrl], <<Text(<<"2">>)>>)>>)

AllListingResponses ==
    ListingResponsesOf(AllCards) \cup ErrorResponses
    \cup {Fetched(RenamedContainerPage)}
    \cup {Fetched(PaginatedListingPage(c)) : c \in SeqsUpTo(ValidCards, MaxCards)}

Bodies ==
    { <<Text(<<"a">>)>>,
      <<Elem("b", NoAttrs, <<Text(<<"a">>)>>), Text(<<"&">>)>>,
      <<>> }

Section(body) == Elem("section", Attr("class", "paragraph-text"), body)

Button(s) == Elem("button", NoAttrs, <<Text(s)>>)

AccordionBody(body) == Elem("div", Attr("class", "accordion-body"), body)

Item(k) == Elem("div", Attr("class", "accordion-item"), k)

Accordion(items) == Elem("div", Attr("class", "accordion"), items)

ButtonTexts == {<<" ", "e">>, <<"f">>}

ItemBodies == {<<Text(<<"a">>)>>, <<Elem("b", NoAttrs, <<Text(<<"a">>)>>), Text(<<"&">>)>>}

ValidItems == {Item(<<Button(t), AccordionBody(b)>>) : t \in ButtonTexts, b \in ItemBodies}

AllItems ==
    ValidItems \cup {Item(<<AccordionBody(<<Text(<<"a">>)>>)>>), Item(<<Button(<<"f">>)>>)}

TitleElement(s) == Elem("title", NoAttrs, <<Text(s)>>)

\* no <title>, an empty <title>, and titles without and with the delimiter
TitleOptions ==
    { <<>>,
      <<Elem("title", NoAttrs, <<>>)>>,
      <<TitleElement(<<"t">>)>>,
      <<TitleElement(<<"t", " ", "-", " ", "s">>)>> }

\* the content containers of a page, in document order
Layouts(bodies, items, n) ==
    LET secs == {Section(b) : b \in bodies}
        accs == {Accordion(i) : i \in SeqsUpTo(items, n)}
    IN  {<<>>} \cup {<<s>> : s \in secs} \cup {<<a>> : a \in accs}
        \cup {<<s, a>> : s \in secs, a \in accs}
        \cup {<<a, s>> : s \in secs, a \in accs}

DetailResponsesOf(titles, bodies, items, n) ==
    {FetchFailed}
    \cup {Fetched(Document(t \o l)) : t \in titles, l \in Layouts(bodies, items, n)}

\* pages with a second paragraph-text section, beside, after or inside the
\* accordion
RepeatedSectionPages ==
    LET first == Section(<<Text(<<"a">>), Text(<<"&">>)>>)
        second == Section(<<Text(<<"c">>)>>)
        item == Item(<<Button(<<"f">>), AccordionBody(<<Text(<<"a">>)>>)>>)
        nesting == Item(<<Button(<<"f">>), AccordionBody(<<second, Text(<<"a">>)>>)>>)
    IN  {Document(<<TitleElement(<<"t">>)>> \o l) :
            l \in {<<first, second>>,
                   <<first, Accordion(<<item>>), second>>,
                   <<Accordion(<<item, item>>), first, second>>,
                   <<Accordion(<<nesting>>), first>>,
                   <<Accordion(<<nesting, item>>)>>}}

AllDetailResponses ==
    DetailResponsesOf(TitleOptions, Bodies, AllItems, MaxSections) \cup ErrorResponses
    \cup {Fetched(p) : p \in RepeatedSectionPages}

-----------------------------------------------------------------------------
(* The calls on their own: extract_urls on any listing response *)

NoResult == Return(<<>>)

\* CreateInferenceModifier, extract_unique_urls: not called
NoCall == <<>>

Untouched ==
    UNCHANGED <<urlFile, legislation_urls, urls, idx, legislation_data, data,
                corpusFile, corpusWrites, dirExists, modifierCall, chainResponse>>

InitCall ==
    /\ pc = "call"
    /\ response = FetchFailed
    /\ result = NoResult
    /\ urlFile = <<>>
    /\ legislation_urls = <<>>
    /\ urls = <<>>
    /\ idx = 0
    /\ legislation_data = <<>>
    /\ data = <<>>
    /\ corpusFile = <<>>
    /\ corpusWrites = 0
    /\ dirExists = FALSE
    /\ fetchLog = <<>>
    /\ modifierCall = NoCall
    /\ chainResponse = NoCall

\* variant: a link to a next page is followed with a second request
CallExtractUrlsFollowNext ==
    /\ pc = "call"
    /\ \E r \in AllListingResponses :
         /\ response' = r
         /\ result' = extract_urls(r)
         /\ fetchLog' = IF r.ok /\ FindClass(r.soup, "a", "next") # <<>>
                         THEN <<ListingUrl, FindClass(r.soup, "a", "next")[1].attrs.href>>
                         ELSE <<ListingUrl>>
    /\ pc' = IF result'.raised THEN "raised" ELSE "returned"
    /\ Untouched

CallExtractUrls ==
    /\ pc = "call"
    /\ \E r \in AllListingResponses :
         /\ response' = r
         /\ result' = extract_urls(r)
    /\ fetchLog' = Append(fetchLog, ListingUrl)
    /\ pc' = IF result'.raised THEN "raised" ELSE "returned"
    /\ Untouched

SpecUrls == InitCall /\ [][CallExtractUrls]_vars

(* extract_legislation_data on any detail response *)

CallExtractLegislationData ==
    /\ pc = "call"
    /\ \E r \in AllDetailResponses, u \in Links :
         /\ response' = r
         /\ result' = extract_legislation_data(r, u)
         /\ fetchLog' = Append(fetchLog, u)
    /\ pc' = IF result'.raised THEN "raised" ELSE "returned"
    /\ Untouched

(* extract_legislation_data alone, on pages of every short title *)

MaxTitleLen == 5

TitleChars == {"t", " ", "-"}

Titles == SeqsUpTo(TitleChars, MaxTitleLen) \ {<<>>}

TitledResponses ==
    {Fetched(Document(<<TitleElement(t)>> \o l)) :
        t \in Titles, l \in {<<>>, <<Section(<<Text(<<"a">>), Text(<<"&">>)>>)>>}}

CallExtractTitledPage ==
    /\ pc = "call"
    /\ \E r \in TitledResponses, u \in Links :
         /\ response' = r
         /\ result' = extract_legislation_data(r, u)
         /\ fetchLog' = Append(fetchLog, u)
    /\ pc' = IF result'.raised THEN "raised" ELSE "returned"
    /\ Untouched

SpecTitle == InitCall /\ [][CallExtractTitledPage]_vars

SpecDoc == InitCall /\ [][CallExtractLegislationData]_vars

-----------------------------------------------------------------------------
(* The corpus file alone: a list of documents is written and read back *)

MaxTextLen == 2

JsonChars == {"a", "n", "\"", "\\", "\n", SCedilla}

JsonTexts == SeqsUpTo(JsonChars, MaxTextLen)

\* the documents of a title t whose blocks hold t and a text x
DocumentsWith(t, x) ==
    {[title |-> t, content |-> c, url |-> "/doc/health"] :
        c \in {<<>>, <<TextBlock(x)>>, <<TextBlock(x), SectionBlock(t, x)>>,
               <<SectionBlock(x, t), SectionBlock(t, x)>>}}

JsonDocuments ==
    UNION {DocumentsWith(t, t) \cup DocumentsWith(t, <<"a", SCedilla>>) : t \in JsonTexts}

PlainDocument == [title |-> <<"a">>, content |-> <<>>, url |-> "/doc/labor"]

JsonInputs ==
    {<<>>} \cup {<<d>> : d \in JsonDocuments}
    \cup {<<d, PlainDocument>> : d \in JsonDocuments}
    \cup {<<PlainDocument, d>> : d \in JsonDocuments}

InitJson ==
    /\ pc = "dump"
    /\ legislation_data \in JsonInputs
    /\ response = FetchFailed
    /\ result = NoResult
    /\ urlFile = <<>>
    /\ legislation_urls = <<>>
    /\ urls = <<>>
    /\ idx = 0
    /\ data = <<>>
    /\ corpusFile = <<>>
    /\ corpusWrites = 0
    /\ dirExists = FALSE
    /\ fetchLog = <<>>
    /\ modifierCall = NoCall
    /\ chainResponse = NoCall

\* save_data_to_file from the makedirs on: the list is dumped to the file
DumpData ==
    /\ pc = "dump"
    /\ data' = <<legislation_data>>
    /\ dirExists' = TRUE
    /\ corpusFile' = <<json_dump_data(legislation_data)>>
    /\ corpusWrites' = corpusWrites + 1
    /\ pc' = "load"
    /\ UNCHANGED <<chainResponse, modifierCall, response, result, urlFile, legislation_urls, urls, idx,
                   legislation_data, fetchLog>>

\* the file is read back
LoadData ==
    /\ pc = "load"
    /\ result' = json_load_data(corpusFile[1])
    /\ pc' = "loaded"
    /\ UNCHANGED <<chainResponse, modifierCall, response, urlFile, legislation_urls, urls, idx, legislation_data,
                   data, corpusFile, corpusWrites, dirExists, fetchLog>>

SpecJson == InitJson /\ [][DumpData \/ LoadData]_vars

-----------------------------------------------------------------------------
(* The run of the notebook's cells, one after the other; an exception ends it *)

\* the listing and detail responses of the batch run
BatchCards ==
    { Card("ps-document-card-type-legislation", <<H2(<<"h">>), Anchor("/doc/health")>>),
      Card("ps-document-card-type-legislation", <<H2(<<" ", "l", "\n">>), Anchor("/doc/labor")>>),
      Card("ps-document-card-type-legislation", <<H2(<<"h">>)>>) }

BatchListingResponses == ListingResponsesOf(BatchCards)

BatchDetailResponses ==
    DetailResponsesOf({<<>>, <<TitleElement(<<"t", " ", "-", " ", "s">>)>>},
                      {<<Text(<<"a">>)>>},
                      {Item(<<Button(<<" ", "e">>), AccordionBody(<<Text(<<"a">>)>>)>>)},
                      1)

\* files left by an earlier run
OldUrls == json_dump_urls(<<[name |-> <<"o">>, link |-> "/doc/old"]>>)

OldCorpus == json_dump_data(<<[title |-> <<"o">>, content |-> <<>>, url |-> "/doc/old"]>>)

Init ==
    /\ pc = "save_urls_to_file"
    /\ response = FetchFailed
    /\ result = NoResult
    /\ \/ dirExists = FALSE /\ urlFile = <<>> /\ corpusFile = <<>>
       \/ dirExists = TRUE /\ urlFile = <<OldUrls>> /\ corpusFile = <<OldCorpus>>
    /\ legislation_urls = <<>>
    /\ urls = <<>>
    /\ idx = 0
    /\ legislation_data = <<>>
    /\ data = <<>>
    /\ corpusWrites = 0
    /\ fetchLog = <<>>
    /\ modifierCall = NoCall
    /\ chainResponse = NoCall

\* cell 5, first statement: save_urls_to_file(filename, url)
SaveUrlsToFile ==
    /\ pc = "save_urls_to_file"
    /\ \E r \in BatchListingResponses :
         /\ response' = r
         /\ result' = extract_urls(r)
    /\ fetchLog' = Append(fetchLog, ListingUrl)
    /\ IF result'.raised
       THEN pc' = "failed" /\ UNCHANGED <<urlFile, dirExists>>
       ELSE pc' = "extract_urls" /\ dirExists' = TRUE /\ urlFile' = <<json_dump_urls(result'.value)>>
    /\ UNCHANGED <<chainResponse, modifierCall, legislation_urls, urls, idx, legislation_data, data,
                   corpusFile, corpusWrites>>

\* variant: a failure of extract_urls is caught and the list left empty
ExtractUrlsCellCaught ==
    /\ pc = "extract_urls"
    /\ \E r \in BatchListingResponses :
         /\ response' = r
         /\ result' = extract_urls(r)
    /\ fetchLog' = Append(fetchLog, ListingUrl)
    /\ pc' = "print_first_url"
    /\ legislation_urls' = IF result'.raised THEN <<>> ELSE result'.value
    /\ urls' = [i \in 1..Len(legislation_urls') |-> legislation_urls'[i].link]
    /\ UNCHANGED <<chainResponse, modifierCall, urlFile, idx, legislation_data, data, corpusFile,
                   corpusWrites, dirExists>>

\* cell 5, second and third statement: legislation_urls and urls
ExtractUrlsCell ==
    /\ pc = "extract_urls"
    /\ \E r \in BatchListingResponses :
         /\ response' = r
         /\ result' = extract_urls(r)
    /\ fetchLog' = Append(fetchLog, ListingUrl)
    /\ IF result'.raised
       THEN pc' = "failed" /\ UNCHANGED <<legislation_urls, urls>>
       ELSE /\ pc' = "print_first_url"
            /\ legislation_urls' = result'.value
            /\ urls' = [i \in 1..Len(result'.value) |-> result'.value[i].link]
    /\ UNCHANGED <<chainResponse, modifierCall, urlFile, idx, legislation_data, data, corpusFile,
                   corpusWrites, dirExists>>

\* cell 6: print(urls[0]), an IndexError on an empty list
PrintFirstUrl ==
    /\ pc = "print_first_url"
    /\ pc' = IF urls = <<>> THEN "failed" ELSE "extract_from_urls"
    /\ result' = IF urls = <<>> THEN Raise("IndexError") ELSE result
    /\ UNCHANGED <<chainResponse, modifierCall, response, urlFile, legislation_urls, urls, idx, legislation_data,
                   data, corpusFile, corpusWrites, dirExists, fetchLog>>

\* variant: legislation_data.insert(0, ...) in place of append
ExtractFromUrlsStepInsertFirst ==
    /\ pc = "extract_from_urls"
    /\ idx < Len(urls)
    /\ \E r \in BatchDetailResponses :
         /\ response' = r
         /\ result' = extract_legislation_data(r, urls[idx + 1])
    /\ fetchLog' = Append(fetchLog, urls[idx + 1])
    /\ IF result'.raised
       THEN pc' = "failed" /\ UNCHANGED <<idx, legislation_data>>
       ELSE /\ pc' = pc
            /\ idx' = idx + 1
            /\ legislation_data' = <<result'.value>> \o legislation_data
    /\ UNCHANGED <<chainResponse, modifierCall, urlFile, legislation_urls, urls, data, corpusFile,
                   corpusWrites, dirExists>>

\* variant: the exception of one document is caught and the loop goes on
ExtractFromUrlsStepSkip ==
    /\ pc = "extract_from_urls"
    /\ idx < Len(urls)
    /\ \E r \in BatchDetailResponses :
         /\ response' = r
         /\ result' = extract_legislation_data(r, urls[idx + 1])
    /\ fetchLog' = Append(fetchLog, urls[idx + 1])
    /\ pc' = pc
    /\ idx' = idx + 1
    /\ legislation_data' = IF result'.raised THEN legislation_data
                           ELSE Append(legislation_data, result'.value)
    /\ UNCHANGED <<chainResponse, modifierCall, urlFile, legislation_urls, urls, data, corpusFile,
                   corpusWrites, dirExists>>

\* variant: each extraction also dumps the records held so far to the file
ExtractFromUrlsStepDumps ==
    /\ pc = "extract_from_urls"
    /\ idx < Len(urls)
    /\ \E r \in BatchDetailResponses :
         /\ response' = r
         /\ result' = extract_legislation_data(r, urls[idx + 1])
    /\ fetchLog' = Append(fetchLog, urls[idx + 1])
    /\ IF result'.raised
       THEN pc' = "failed" /\ UNCHANGED <<idx, legislation_data>>
       ELSE /\ pc' = pc
            /\ idx' = idx + 1
            /\ legislation_data' = Append(legislation_data, result'.value)
    /\ corpusFile' = <<json_dump_data(legislation_data)>>
    /\ dirExists' = TRUE
    /\ UNCHANGED <<chainResponse, modifierCall, urlFile, legislation_urls, urls, data, corpusWrites>>

\* variant: all_data = [data] in place of all_data.append(data)
ExtractFromUrlsStepKeepsLast ==
    /\ pc = "extract_from_urls"
    /\ idx < Len(urls)
    /\ \E r \in BatchDetailResponses :
         /\ response' = r
         /\ result' = extract_legislation_data(r, urls[idx + 1])
    /\ fetchLog' = Append(fetchLog, urls[idx + 1])
    /\ IF result'.raised
       THEN pc' = "failed" /\ UNCHANGED <<idx, legislation_data>>
       ELSE /\ pc' = pc
            /\ idx' = idx + 1
            /\ legislation_data' = <<result'.value>>
    /\ UNCHANGED <<chainResponse, modifierCall, urlFile, legislation_urls, urls, data, corpusFile,
                   corpusWrites, dirExists>>

\* variant: a request that raised is sent once more before the run gives up
ExtractFromUrlsStepRetry ==
    /\ pc = "extract_from_urls"
    /\ idx < Len(urls)
    /\ \E r \in BatchDetailResponses :
         /\ response' = r
         /\ result' = extract_legislation_data(r, urls[idx + 1])
    /\ fetchLog' = Append(fetchLog, urls[idx + 1])
    /\ IF result'.raised
       THEN /\ pc' = IF ~response'.ok /\ Len(fetchLog) - 2 = idx THEN pc ELSE "failed"
            /\ UNCHANGED <<idx, legislation_data>>
       ELSE /\ pc' = pc
            /\ idx' = idx + 1
            /\ legislation_data' = Append(legislation_data, result'.value)
    /\ UNCHANGED <<chainResponse, modifierCall, urlFile, legislation_urls, urls, data, corpusFile,
                   corpusWrites, dirExists>>

\* variant: the loop does not move on to the next URL
ExtractFromUrlsStepNoAdvance ==
    /\ pc = "extract_from_urls"
    /\ idx < Len(urls)
    /\ Len(fetchLog) < Len(urls) + 4
    /\ \E r \in BatchDetailResponses :
         /\ response' = r
         /\ result' = extract_legislation_data(r, urls[idx + 1])
    /\ fetchLog' = Append(fetchLog, urls[idx + 1])
    /\ IF result'.raised
       THEN pc' = "failed" /\ UNCHANGED <<idx, legislation_data>>
       ELSE /\ pc' = pc
            /\ idx' = idx
            /\ legislation_data' = legislation_data
    /\ UNCHANGED <<chainResponse, modifierCall, urlFile, legislation_urls, urls, data, corpusFile,
                   corpusWrites, dirExists>>

\* variant: os.makedirs is called before the loop
ExtractFromUrlsStepMakesDir ==
    /\ pc = "extract_from_urls"
    /\ idx < Len(urls)
    /\ \E r \in BatchDetailResponses :
         /\ response' = r
         /\ result' = extract_legislation_data(r, urls[idx + 1])
    /\ fetchLog' = Append(fetchLog, urls[idx + 1])
    /\ IF result'.raised
       THEN pc' = "failed" /\ UNCHANGED <<idx, legislation_data>>
       ELSE /\ pc' = pc
            /\ idx' = idx + 1
            /\ legislation_data' = Append(legislation_data, result'.value)
    /\ dirExists' = TRUE
    /\ UNCHANGED <<chainResponse, modifierCall, urlFile, legislation_urls, urls, data,
                   corpusFile, corpusWrites>>

\* variant: the request for the next URL is sent along with the current one
ExtractFromUrlsStepPrefetch ==
    /\ pc = "extract_from_urls"
    /\ idx < Len(urls)
    /\ \E r \in BatchDetailResponses :
         /\ response' = r
         /\ result' = extract_legislation_data(r, urls[idx + 1])
    /\ fetchLog' = IF idx + 1 < Len(urls)
                    THEN fetchLog \o <<urls[idx + 1], urls[idx + 2]>>
                    ELSE Append(fetchLog, urls[idx + 1])
    /\ IF result'.raised
       THEN pc' = "failed" /\ UNCHANGED <<idx, legislation_data>>
       ELSE /\ pc' = pc
            /\ idx' = idx + 1
            /\ legislation_data' = Append(legislation_data, result'.value)
    /\ UNCHANGED <<chainResponse, modifierCall, urlFile, legislation_urls, urls, data, corpusFile,
                   corpusWrites, dirExists>>

\* cell 8, save_data_to_file: one iteration of the loop of extract_from_urls
ExtractFromUrlsStep ==
    /\ pc = "extract_from_urls"
    /\ idx < Len(urls)
    /\ \E r \in BatchDetailResponses :
         /\ response' = r
         /\ result' = extract_legislation_data(r, urls[idx + 1])
    /\ fetchLog' = Append(fetchLog, urls[idx + 1])
    /\ IF result'.raised
       THEN pc' = "failed" /\ UNCHANGED <<idx, legislation_data>>
       ELSE /\ pc' = pc
            /\ idx' = idx + 1
            /\ legislation_data' = Append(legislation_data, result'.value)
    /\ UNCHANGED <<chainResponse, modifierCall, urlFile, legislation_urls, urls, data, corpusFile,
                   corpusWrites, dirExists>>

\* variant: the file is written from inside the loop
SaveDataToFileInLoop ==
    /\ pc = "extract_from_urls"
    /\ idx <= Len(urls)
    /\ corpusWrites <= idx
    /\ data' = <<legislation_data>>
    /\ dirExists' = TRUE
    /\ corpusFile' = <<json_dump_data(legislation_data)>>
    /\ corpusWrites' = corpusWrites + 1
    /\ pc' = IF idx = Len(urls) THEN "done" ELSE pc
    /\ UNCHANGED <<chainResponse, modifierCall, response, result, urlFile, legislation_urls, urls, idx,
                   legislation_data, fetchLog>>

\* cell 8, save_data_to_file: the loop returned; makedirs, open and json.dump
SaveDataToFile ==
    /\ pc = "extract_from_urls"
    /\ idx = Len(urls)
    /\ data' = <<legislation_data>>
    /\ dirExists' = TRUE
    /\ corpusFile' = <<json_dump_data(legislation_data)>>
    /\ corpusWrites' = corpusWrites + 1
    /\ pc' = "done"
    /\ UNCHANGED <<chainResponse, modifierCall, response, result, urlFile, legislation_urls, urls, idx,
                   legislation_data, fetchLog>>

Next ==
    \/ SaveUrlsToFile
    \/ ExtractUrlsCell
    \/ PrintFirstUrl
    \/ ExtractFromUrlsStep
    \/ SaveDataToFile

Spec == Init /\ [][Next]_vars

\* save_data_to_file alone, on any list of URLs: the directory may be absent,
\* there without the corpus file, or there with the file of an earlier run
InitSave ==
    /\ pc = "extract_from_urls"
    /\ urls \in SeqsUpTo(Links, MaxCards)
    /\ \/ dirExists = FALSE /\ urlFile = <<>> /\ corpusFile = <<>>
       \/ dirExists = TRUE /\ urlFile = <<OldUrls>> /\ corpusFile = <<>>
       \/ dirExists = TRUE /\ urlFile = <<OldUrls>> /\ corpusFile = <<OldCorpus>>
    /\ response = FetchFailed
    /\ result = NoResult
    /\ legislation_urls = <<>>
    /\ idx = 0
    /\ legislation_data = <<>>
    /\ data = <<>>
    /\ corpusWrites = 0
    /\ fetchLog = <<>>
    /\ modifierCall = NoCall
    /\ chainResponse = NoCall

SpecSave == InitSave /\ [][ExtractFromUrlsStep \/ SaveDataToFile]_vars

\* the kernel runs the cells to the end: a step that can be taken is taken
SpecFair == Spec /\ WF_vars(Next)

-----------------------------------------------------------------------------
(* CreateInferenceModifier of notebooks/utils.py.  A dict is a function from
   its keys; numbers are kept as their numerals, None as "None", a list of
   stop sequences as a sequence. *)

\* params.get(key, default)
Get(params, key, default) == IF key \in DOMAIN params THEN params[key] ELSE default

\* variant: the branch of the command models is missing
CreateInferenceModifierNoCommand(model_type, params, kwargs) ==
    LET p == IF params = <<>> THEN kwargs ELSE params[1]
    IN  CASE model_type = "amazon" ->
               Return([maxTokenCount |-> Get(p, "max_tokens", "8192"),
                       temperature |-> Get(p, "temperature", "0.5"),
                       topP |-> Get(p, "top_p", "None"),
                       stopSequences |-> <<"User:">>])
          [] model_type = "claude" ->
               Return([max_tokens_to_sample |-> Get(p, "max_tokens", "4096"),
                       temperature |-> Get(p, "temperature", "0.5"),
                       top_k |-> Get(p, "top_k", "250"),
                       top_p |-> Get(p, "top_p", "1"),
                       stop_sequences |-> Get(p, "stop_sequences", <<"\n\nHuman">>)])
          [] model_type = "jurassic" ->
               Return([temperature |-> Get(p, "temperature", "0.5"),
                       topP |-> Get(p, "top_p", "1"),
                       maxTokens |-> Get(p, "max_tokens", "4096"),
                       stopSequences |-> Get(p, "stop_sequences", <<"\n\nHuman">>)])
          [] OTHER -> Raise("ValueError")

\* variant: the keyword arguments are merged over params
CreateInferenceModifierMergesKwargs(model_type, params, kwargs) ==
    LET given == IF params = <<>> THEN <<>> ELSE params[1]
        p == [key \in DOMAIN given \cup DOMAIN kwargs |->
                 IF key \in DOMAIN kwargs THEN kwargs[key] ELSE given[key]]
    IN  CASE model_type = "amazon" ->
               Return([maxTokenCount |-> Get(p, "max_tokens", "8192"),
                       temperature |-> Get(p, "temperature", "0.5"),
                       topP |-> Get(p, "top_p", "None"),
                       stopSequences |-> <<"User:">>])
          [] model_type = "claude" ->
               Return([max_tokens_to_sample |-> Get(p, "max_tokens", "4096"),
                       temperature |-> Get(p, "temperature", "0.5"),
                       top_k |-> Get(p, "top_k", "250"),
                       top_p |-> Get(p, "top_p", "1"),
                       stop_sequences |-> Get(p, "stop_sequences", <<"\n\nHuman">>)])
          [] model_type = "jurassic" ->
               Return([temperature |-> Get(p, "temperature", "0.5"),
                       topP |-> Get(p, "top_p", "1"),
                       maxTokens |-> Get(p, "max_tokens", "4096"),
                       stopSequences |-> Get(p, "stop_sequences", <<"\n\nHuman">>)])
          [] model_type = "command" ->
               Return([temperature |-> Get(p, "temperature", "0.5"),
                       p |-> Get(p, "top_p", "1"),
                       k |-> Get(p, "top_k", "250"),
                       max_tokens |-> Get(p, "max_tokens", "4096"),
                       stop_sequences |-> Get(p, "stop_sequences", <<"\n\nHuman">>)])
          [] OTHER -> Raise("ValueError")

\* params is <<>> for None and <<dict>> otherwise; kwargs is a dict
CreateInferenceModifier(model_type, params, kwargs) ==
    LET p == IF params = <<>> THEN kwargs ELSE params[1]
    IN  CASE model_type = "amazon" ->
               Return([maxTokenCount |-> Get(p, "max_tokens", "8192"),
                       temperature |-> Get(p, "temperature", "0.5"),
                       topP |-> Get(p, "top_p", "None"),
                       stopSequences |-> <<"User:">>])
          [] model_type = "claude" ->
               Return([max_tokens_to_sample |-> Get(p, "max_tokens", "4096"),
                       temperature |-> Get(p, "temperature", "0.5"),
                       top_k |-> Get(p, "top_k", "250"),
                       top_p |-> Get(p, "top_p", "1"),
                       stop_sequences |-> Get(p, "stop_sequences", <<"\n\nHuman">>)])
          [] model_type = "jurassic" ->
               Return([temperature |-> Get(p, "temperature", "0.5"),
                       topP |-> Get(p, "top_p", "1"),
                       maxTokens |-> Get(p, "max_tokens", "4096"),
                       stopSequences |-> Get(p, "stop_sequences", <<"\n\nHuman">>)])
          [] model_type = "command" ->
               Return([temperature |-> Get(p, "temperature", "0.5"),
                       p |-> Get(p, "top_p", "1"),
                       k |-> Get(p, "top_k", "250"),
                       max_tokens |-> Get(p, "max_tokens", "4096"),
                       stop_sequences |-> Get(p, "stop_sequences", <<"\n\nHuman">>)])
          [] OTHER -> Raise("ValueError")

\* the model types of a call: the four known ones and others
ModelTypes == {"amazon", "claude", "jurassic", "command", "titan", "Claude", ""}

ParamKeys == {"max_tokens", "temperature", "top_p", "top_k", "stop_sequences"}

\* the value a caller gives for a key
GivenValue(key) ==
    CASE key = "max_tokens" -> "100"
      [] key = "temperature" -> "0.9"
      [] key = "top_p" -> "0.7"
      [] key = "top_k" -> "10"
      [] OTHER -> <<"END">>

\* the dicts over the keys; the empty one among them
Dicts == {[key \in K |-> GivenValue(key)] : K \in SUBSET ParamKeys}

\* the value a caller gives for a keyword argument
KeywordValue(key) ==
    CASE key = "max_tokens" -> "200"
      [] key = "temperature" -> "0.1"
      [] key = "top_p" -> "0.3"
      [] key = "top_k" -> "20"
      [] OTHER -> <<"STOP">>

KwargsDicts ==
    {[key \in K |-> KeywordValue(key)] :
        K \in {{}, {"temperature"}, {"max_tokens", "top_k"}, {"top_p", "stop_sequences"}}}

CallCreateInferenceModifier ==
    /\ pc = "call"
    /\ \E m \in ModelTypes, params \in {<<>>} \cup {<<d>> : d \in Dicts}, kwargs \in KwargsDicts :
         /\ modifierCall' = <<[model_type |-> m, params |-> params, kwargs |-> kwargs]>>
         /\ result' = CreateInferenceModifier(m, params, kwargs)
    /\ pc' = IF result'.raised THEN "raised" ELSE "returned"
    /\ UNCHANGED <<response, fetchLog, urlFile, legislation_urls, urls, idx,
                   legislation_data, data, corpusFile, corpusWrites, dirExists,
                   chainResponse>>

SpecModifier == InitCall /\ [][CallCreateInferenceModifier]_vars

-----------------------------------------------------------------------------
(* extract_unique_urls of the question answering cells.  The string returned
   is kept as its pieces: the URLs and the separators between them. *)

MaxContext == 4

\* str.join
RECURSIVE JoinWith(_, _)
JoinWith(parts, sep) ==
    IF Len(parts) <= 1 THEN parts
    ELSE <<parts[1], sep>> \o JoinWith(Tail(parts), sep)

\* the orders in which a set may be iterated
SetOrders(S) ==
    {o \in [1..Cardinality(S) -> S] : \A i, j \in 1..Cardinality(S) : i # j => o[i] # o[j]}

\* variant: the sources are collected in a list
extract_unique_urls_list(resp, order) ==
    Return(JoinWith([i \in 1..Len(resp.context) |-> resp.context[i].metadata.source], "; "))

\* unique_urls is a set; order is the order in which join iterates it
unique_urls(resp) == {resp.context[i].metadata.source : i \in 1..Len(resp.context)}

extract_unique_urls(resp, order) == Return(JoinWith(order, "; "))

SourceUrls == {"https://multecihaklari.info/ps/services/a",
               "https://multecihaklari.info/ps/services/b",
               "https://multecihaklari.info/ps/services/c"}

ContextDocument(u) == [metadata |-> [source |-> u]]

ChainResponses ==
    {[context |-> [i \in 1..Len(c) |-> ContextDocument(c[i])]] : c \in SeqsUpTo(SourceUrls, MaxContext)}

CallExtractUniqueUrls ==
    /\ pc = "call"
    /\ \E r \in ChainResponses :
         /\ chainResponse' = <<r>>
         /\ \E order \in SetOrders(unique_urls(r)) :
               result' = extract_unique_urls(r, order)
    /\ pc' = "returned"
    /\ UNCHANGED <<response, fetchLog, urlFile, legislation_urls, urls, idx,
                   legislation_data, data, corpusFile, corpusWrites, dirExists,
                   modifierCall>>

SpecSources == InitCall /\ [][CallExtractUniqueUrls]_vars

-----------------------------------------------------------------------------
(* What a fetched page holds, read off its top-level elements *)

Called == pc \in {"returned", "raised"}

TopLevel(soup, t, a, v) ==
    LET Is(x) == x.tag = t /\ HasAttr(x, a) /\ x.attrs[a] = v
    IN  SelectSeq(soup.kids, Is)

Children(n, t) ==
    LET Is(x) == x.tag = t
    IN  SelectSeq(n.kids, Is)

PageCards(soup) == TopLevel(soup, "div", "id", "nav-national-legislation")[1].kids

HasContainer(soup) == TopLevel(soup, "div", "id", "nav-national-legislation") # <<>>

IsValidCard(card) ==
    /\ Children(card, "h2") # <<>>
    /\ Children(card, "a") # <<>>
    /\ HasAttr(Children(card, "a")[1], "href")

CardTitle(card) == strip(Children(card, "h2")[1].kids[1].text)

CardLink(card) == Children(card, "a")[1].attrs.href

\* the paragraph-text sections of the page, nested ones too, in document order
PageSections(soup) ==
    LET Is(x) == x.tag = "section" /\ HasClass(x, "paragraph-text")
    IN  SelectSeq(Descendants(soup), Is)

PageAccordions(soup) == TopLevel(soup, "div", "class", "accordion")

\* the sections of the page's accordion, in document order
PageItems(soup) == PageAccordions(soup)[1].kids

HasTitleString(soup) ==
    /\ Children(soup, "title") # <<>>
    /\ Len(Children(soup, "title")[1].kids) = 1

IsValidItem(item) ==
    /\ Children(item, "button") # <<>>
    /\ TopLevel(item, "div", "class", "accordion-body") # <<>>

WellFormed(soup) ==
    /\ HasTitleString(soup)
    /\ PageAccordions(soup) # <<>> =>
          \A i \in 1..Len(PageItems(soup)) : IsValidItem(PageItems(soup)[i])

ItemHeading(item) == strip(Children(item, "button")[1].kids[1].text)

ItemBody(item) == TopLevel(item, "div", "class", "accordion-body")[1]

\* the blocks that stand for the sections of the page's accordion
SectionsOf(soup) ==
    [i \in 1..Len(PageItems(soup)) |->
        SectionBlock(ItemHeading(PageItems(soup)[i]),
                     stringify_children(ItemBody(PageItems(soup)[i])))]

-----------------------------------------------------------------------------
(* Claims about extract_urls, under SpecUrls *)

\* C1: for a listing page whose container holds N valid cards, extract_urls
\* returns exactly N entries, the i-th holding the (stripped) heading text and
\* the link of the i-th card of the page.
C1_DiscoveryInOrder ==
    (Called /\ response.ok /\ HasContainer(response.soup)
       /\ \A i \in 1..Len(PageCards(response.soup)) :
             IsValidCard(PageCards(response.soup)[i]))
    => /\ ~result.raised
       /\ Len(result.value) = Len(PageCards(response.soup))
       /\ \A i \in 1..Len(result.value) :
             /\ result.value[i].name = CardTitle(PageCards(response.soup)[i])
             /\ result.value[i].link = CardLink(PageCards(response.soup)[i])

\* a page of two valid cards with different links was discovered
C1_Witness ==
    /\ pc = "returned"
    /\ Len(PageCards(response.soup)) = 2
    /\ Len(result.value) = 2
    /\ result.value[1].link = "/doc/health"
    /\ result.value[2].link = "/doc/labor"
    /\ result.value[2].name = <<"l">>

\* C11: when the fetched listing page has no card container (changed markup,
\* an error page, an empty body), extract_urls raises; it returns no list,
\* the empty list included.
C11_MissingContainerRaises ==
    (Called /\ response.ok /\ ~HasContainer(response.soup))
    => /\ result.raised
       /\ result.exc = "AttributeError"
       /\ pc = "raised"

\* the page with the renamed container was fetched and the call raised
C11_Witness ==
    /\ pc = "raised"
    /\ response.ok
    /\ response.soup = RenamedContainerPage
    /\ result.exc = "AttributeError"

\* C19: one call of extract_urls sends exactly one request, for the listing
\* URL it was given; a link to a further page is not followed, and the entries
\* returned are the cards of the fetched page alone.
C19_OneFetchOfListing ==
    Called =>
       /\ fetchLog = <<ListingUrl>>
       /\ (pc = "returned" /\ HasContainer(response.soup))
             => Len(result.value) = Len(PageCards(response.soup))

\* a listing page with a link to a second page was discovered
C19_Witness ==
    /\ pc = "returned"
    /\ FindClass(response.soup, "a", "next") # <<>>
    /\ Len(PageCards(response.soup)) = 2
    /\ Len(result.value) = 2
    /\ fetchLog = <<ListingUrl>>

\* C28: when a card of the listing container has no heading or no link (no
\* anchor, or an anchor without href), extract_urls raises and returns no
\* list, whatever valid cards stand before or after it.
C28_MalformedCardFailsDiscovery ==
    (Called /\ response.ok /\ HasContainer(response.soup)
       /\ \E i \in 1..Len(PageCards(response.soup)) :
             ~IsValidCard(PageCards(response.soup)[i]))
    => /\ pc = "raised"
       /\ result.raised
       /\ result.exc \in {"AttributeError", "TypeError", "KeyError"}

\* a valid card followed by a card without anchor: the call raised
C28_Witness ==
    /\ pc = "raised"
    /\ response.ok
    /\ HasContainer(response.soup)
    /\ Len(PageCards(response.soup)) = 2
    /\ IsValidCard(PageCards(response.soup)[1])
    /\ Children(PageCards(response.soup)[2], "h2") # <<>>
    /\ Children(PageCards(response.soup)[2], "a") = <<>>
    /\ result.exc = "TypeError"

-----------------------------------------------------------------------------
(* Claims about extract_legislation_data, under SpecDoc *)

OnlyBlockText(soup) == PageSections(soup) # <<>> /\ PageAccordions(soup) = <<>>

OnlyAccordion(soup) == PageSections(soup) = <<>> /\ PageAccordions(soup) # <<>>

BothLayouts(soup) == PageSections(soup) # <<>> /\ PageAccordions(soup) # <<>>

NeitherLayout(soup) == PageSections(soup) = <<>> /\ PageAccordions(soup) = <<>>

Returned == pc = "returned" /\ response.ok

C5_NeitherLayoutNoError ==
    (Called /\ response.ok /\ NeitherLayout(response.soup))
    => /\ ~result.raised
       /\ result.value.content = <<>>

\* C6 as stated: the content of a returned document is non-empty whenever a
\* block-text container or an accordion container was found, and empty only
\* when neither was found.
C6_NonEmptyIfLayout ==
    Returned =>
       (result.value.content # <<>> <=> ~NeitherLayout(response.soup))

\* C6 as amended: the content of a returned document is non-empty exactly
\* when a block-text container was found or the accordion found holds at
\* least one section.
C6_NonEmptyIfBlockOrSection ==
    Returned =>
       (result.value.content # <<>>
          <=> \/ PageSections(response.soup) # <<>>
              \/ /\ PageAccordions(response.soup) # <<>>
                 /\ PageItems(response.soup) # <<>>)

\* a page whose block-text section has no children was extracted
C6_Witness ==
    /\ Returned
    /\ OnlyBlockText(response.soup)
    /\ PageSections(response.soup)[1].kids = <<>>
    /\ Len(result.value.content) = 1

\* the inner markup of a container: its children's markup in document order,
\* each child once, without the container's own tag
InnerMarkup(node) == Join([i \in 1..Len(node.kids) |-> Str(node.kids[i])])

\* C13: in every document extraction returns, the text of the flat-text block
\* is exactly the inner markup of the block-text container, and the body of
\* the i-th section is exactly the inner markup of the i-th section's body
\* container; this includes a container whose only child is a text string.
C13_TextIsInnerMarkup ==
    (Returned /\ ~result.raised) =>
       LET soup == response.soup
           content == result.value.content
           first == IF PageSections(soup) # <<>> THEN 1 ELSE 0
       IN  /\ PageSections(soup) # <<>> =>
                content[1].text = InnerMarkup(PageSections(soup)[1])
           /\ PageAccordions(soup) # <<>> =>
                \A i \in 1..Len(PageItems(soup)) :
                   content[first + i].content = InnerMarkup(ItemBody(PageItems(soup)[i]))

\* C15: a fetch that failed (the request raised, or the answer has a
\* non-success status) makes extraction raise and yields no document; a
\* returned document with empty content therefore comes from a page fetched
\* with success.
C15_FetchFailureRaises ==
    /\ (Called /\ (~response.ok \/ response.status # 200)) => result.raised
    /\ (Called /\ ~result.raised /\ result.value.content = <<>>)
          => response.ok /\ response.status = 200

\* C25: the content of a document extraction returns holds at most one
\* flat-text block, and that one at the first position: no flat-text block
\* comes after a section, wherever the paragraph-text sections of the page
\* stand and however many there are.
C25_OneTextBlockFirst ==
    (Called /\ ~result.raised) =>
       \A i \in 1..Len(result.value.content) :
          result.value.content[i].kind = "text" => i = 1

\* a page with two paragraph-text sections around an accordion was extracted
C25_Witness ==
    /\ Returned
    /\ ~result.raised
    /\ Len(PageSections(response.soup)) = 2
    /\ PageAccordions(response.soup) # <<>>
    /\ response.soup.kids[3].tag = "div"
    /\ Len(result.value.content) = 2
    /\ result.value.content[1].kind = "text"

\* C29: when an item of the page's accordion has no header button or no
\* body container, extraction raises and returns no document, whatever
\* block text or well-formed items stand before the malformed one.
C29_MalformedItemFailsExtraction ==
    (Called /\ response.ok /\ PageAccordions(response.soup) # <<>>
       /\ \E i \in 1..Len(PageItems(response.soup)) :
             ~IsValidItem(PageItems(response.soup)[i]))
    => /\ pc = "raised"
       /\ result.raised
       /\ result.exc = "AttributeError"

\* block text and a well-formed item before an item without body: raised
C29_Witness ==
    /\ pc = "raised"
    /\ response.ok
    /\ HasTitleString(response.soup)
    /\ BothLayouts(response.soup)
    /\ Len(PageItems(response.soup)) = 2
    /\ IsValidItem(PageItems(response.soup)[1])
    /\ Children(PageItems(response.soup)[2], "button") # <<>>
    /\ ~IsValidItem(PageItems(response.soup)[2])
    /\ result.exc = "AttributeError"

-----------------------------------------------------------------------------
(* Claims about the batch run, under Spec *)

\* the document URLs requested so far: the fetches after the two of the listing
DocFetches == SubSeq(fetchLog, 3, Len(fetchLog))

IsPrefix(s, t) == Len(s) <= Len(t) /\ SubSeq(t, 1, Len(s)) = s

UntouchedCorpus == corpusFile \in {<<>>, <<OldCorpus>>}

\* the records read back from the corpus file
CorpusOnDisk ==
    LET r == json_load_data(corpusFile[1])
    IN  IF r.raised THEN <<>> ELSE r.value

\* the records read back from a file of the given contents
RecordsIn(file) ==
    LET r == json_load_data(file[1])
    IN  IF r.raised THEN <<>> ELSE r.value

\* C7: discovery comes before any extraction (the only requests before the
\* list of URLs is set are the two of the listing page), the documents are
\* requested in list order, each list entry at most once, and a run that
\* completes has requested each entry exactly once and holds one record per
\* discovered URL, the i-th with the i-th discovered link as its url.
C7_OncePerUrlInOrder ==
    /\ \A k \in 1..Len(fetchLog) : fetchLog[k] # ListingUrl => k > 2
    /\ pc \in {"save_urls_to_file", "extract_urls", "print_first_url"}
          => (Len(fetchLog) <= 2 /\ legislation_data = <<>>)
    /\ Len(fetchLog) > 2 =>
          /\ fetchLog[1] = ListingUrl /\ fetchLog[2] = ListingUrl
          /\ IsPrefix(DocFetches, urls)
    /\ Len(legislation_data) = idx
    /\ \A i \in 1..Len(legislation_data) : legislation_data[i].url = urls[i]
    /\ pc = "done" =>
          /\ DocFetches = urls
          /\ corpusFile # <<>>
          /\ Len(CorpusOnDisk) = Len(urls)
          /\ Len(urls) = Len(legislation_urls)
          /\ \A i \in 1..Len(urls) :
                CorpusOnDisk[i].url = legislation_urls[i].link

\* a run over two different discovered URLs completed
C7_Witness ==
    /\ pc = "done"
    /\ Len(legislation_urls) = 2
    /\ CorpusOnDisk[1].url = "/doc/labor"
    /\ CorpusOnDisk[2].url = "/doc/health"

\* C8: the corpus file is written at most once in a run and exactly once in a
\* run that completes, and a write happens only when every discovered URL has
\* been extracted: until then the file is as the run found it.
C8_WrittenOnceAtEnd ==
    /\ corpusWrites <= 1
    /\ pc = "done" => corpusWrites = 1
    /\ corpusWrites = 1 =>
          /\ pc = "done"
          /\ idx = Len(urls)
          /\ Len(legislation_data) = Len(urls)
          /\ CorpusOnDisk = legislation_data
    /\ corpusWrites = 0 => UntouchedCorpus

\* the file was written after two documents were extracted
C8_Witness ==
    /\ corpusWrites = 1
    /\ Len(urls) = 2
    /\ Len(CorpusOnDisk) = 2

\* the extraction of a document raised in the batch
ExtractionRaised == result.raised /\ Len(fetchLog) > 2

\* C9: when the extraction of one document fails, the batch is not aborted:
\* once the run is over, the persisted corpus holds the record of every
\* document whose extraction succeeded.
C9_FailureKeepsExtracted ==
    (ExtractionRaised /\ ~ENABLED Next /\ legislation_data # <<>>)
    => /\ corpusWrites = 1
       /\ \A i \in 1..Len(legislation_data) :
             \E j \in 1..Len(CorpusOnDisk) : CorpusOnDisk[j] = legislation_data[i]

\* C10: an exception in the extraction of one document ends the run: nothing
\* more is requested, the corpus file is not written and the records
\* extracted so far reach neither the caller nor the file.
C10_ExceptionEndsRun ==
    ExtractionRaised =>
       /\ pc = "failed"
       /\ ~ENABLED Next
       /\ Len(DocFetches) = idx + 1
       /\ corpusWrites = 0
       /\ UntouchedCorpus
       /\ data = <<>>

\* the second of two documents raised after the first was extracted
C10_Witness ==
    /\ ExtractionRaised
    /\ Len(urls) = 2
    /\ idx = 1
    /\ Len(legislation_data) = 1
    /\ corpusFile = <<OldCorpus>>

\* C17: requests are sent one at a time: a step sends at most one request,
\* and the request for a document is sent only when every document requested
\* before it has its record in the accumulated list.
C17_OneRequestAtATime ==
    [][/\ Len(fetchLog') <= Len(fetchLog) + 1
       /\ (Len(fetchLog') > Len(fetchLog) /\ Len(fetchLog) >= 2)
             => /\ Len(legislation_data) = Len(DocFetches)
                /\ \A i \in 1..Len(DocFetches) : legislation_data[i].url = DocFetches[i]
      ]_vars

\* the second document was requested, the record of the first being held
C17_Witness ==
    /\ Len(DocFetches) = 2
    /\ Len(legislation_data) >= 1
    /\ legislation_data[1].url = DocFetches[1]
    /\ DocFetches[2] # DocFetches[1]

\* C18: one extraction changes nothing but the log of requests, to which it
\* adds its one request, for the URL it was given: no file is written, the
\* list of URLs and the records held so far stay as they were (the caller
\* appends the new record after them), and the outcome is the one the
\* fetched page and the URL determine.
C18_ExtractionOnlyFetches ==
    [][(pc = "extract_from_urls" /\ fetchLog' # fetchLog) =>
          /\ fetchLog' = Append(fetchLog, urls[idx + 1])
          /\ UNCHANGED <<urlFile, corpusFile, corpusWrites, dirExists,
                         legislation_urls, urls, data>>
          /\ IsPrefix(legislation_data, legislation_data')
          /\ Len(legislation_data') <= Len(legislation_data) + 1
          /\ result' = extract_legislation_data(response', urls[idx + 1])
          /\ ~result'.raised =>
                legislation_data' = Append(legislation_data, result'.value)
      ]_vars

\* an extraction ran with an earlier record held and both files on disk
C18_Witness ==
    /\ pc = "extract_from_urls"
    /\ Len(DocFetches) = 2
    /\ Len(legislation_data) = 2
    /\ legislation_data[1].content # <<>>
    /\ urlFile # <<>>
    /\ corpusFile = <<OldCorpus>>

\* C21: the accumulated list only grows at its end: a step leaves the records
\* held so far in place and unchanged and adds at most one after them; the
\* corpus file, when written, holds each accumulated record once, at its
\* position.
C21_AccumulatorAppendOnly ==
    [][/\ IsPrefix(legislation_data, legislation_data')
       /\ Len(legislation_data') <= Len(legislation_data) + 1
       /\ corpusFile' # corpusFile =>
             /\ Len(RecordsIn(corpusFile')) = Len(legislation_data)
             /\ \A i \in 1..Len(legislation_data) :
                   RecordsIn(corpusFile')[i] = legislation_data[i]
      ]_vars

\* two records of different content were accumulated and written
C21_Witness ==
    /\ pc = "done"
    /\ Len(legislation_data) = 2
    /\ legislation_data[1].content # legislation_data[2].content
    /\ CorpusOnDisk = legislation_data

\* C22: a request that raised is not sent again: after it no request at all
\* is sent, and the k-th document request of a run is the one for the k-th
\* entry of the URL list, so that no entry is requested twice.
C22_NoRetry ==
    [][/\ (fetchLog # <<>> /\ ~response.ok /\ result.raised) => fetchLog' = fetchLog
       /\ (fetchLog' # fetchLog /\ Len(fetchLog) >= 2) =>
             /\ Len(DocFetches) < Len(urls)
             /\ fetchLog' = Append(fetchLog, urls[Len(DocFetches) + 1])
      ]_vars

\* the request for the second document raised after the first was extracted
C22_Witness ==
    /\ Len(DocFetches) = 2
    /\ ~response.ok
    /\ result = Raise("RequestException")
    /\ Len(legislation_data) = 1
    /\ pc = "failed"

\* the run is over: the corpus file is written, or an exception ended it
RunEnded ==
    \/ pc = "done" /\ corpusWrites = 1 /\ corpusFile # <<>>
    \/ pc = "failed" /\ result.raised

\* C23: a run over a list of N URLs sends at most N document requests and
\* comes to an end, with the corpus file written or with an exception.
C23_Terminates ==
    /\ [](Len(DocFetches) <= Len(urls))
    /\ <>[]RunEnded

\* a run over two URLs ended after two document requests, the file written
C23_Witness ==
    /\ ~ENABLED Next
    /\ pc = "done"
    /\ Len(urls) = 2
    /\ Len(DocFetches) = 2
    /\ corpusWrites = 1

\* C26: a call of save_data_to_file in which an extraction raises changes
\* nothing on disk: every step of the call but the one that ends it with
\* the dump leaves the directory and both files as they were, and a call
\* that failed has written nothing.
C26_FailedSaveLeavesDisk ==
    [][/\ pc' # "done" => UNCHANGED <<dirExists, corpusFile, urlFile, corpusWrites, data>>
       /\ pc' = "failed" => result'.raised /\ corpusWrites' = 0 /\ data' = <<>>
      ]_vars

\* the second extraction raised; the directory is still absent
C26_Witness ==
    /\ pc = "failed"
    /\ result.raised
    /\ Len(fetchLog) = 2
    /\ Len(legislation_data) = 1
    /\ dirExists = FALSE
    /\ corpusFile = <<>>

\* index discovery raised: one of the two calls of extract_urls of cell 5
DiscoveryRaised ==
    result.raised /\ Len(fetchLog) \in {1, 2} /\ result.exc # "IndexError"

\* C27: once both calls of extract_urls of cell 5 have returned, the list
\* persisted to the URL file and the list that drives extraction are the same
\* sequence of entries.
C27_FileAndDrivingListAgree ==
    (Len(fetchLog) >= 2 /\ ~DiscoveryRaised) =>
       /\ urlFile = <<json_dump_urls(legislation_urls)>>
       /\ urls = [i \in 1..Len(legislation_urls) |-> legislation_urls[i].link]

\* C12: when index discovery fails the run ends there: no document page is
\* requested and the corpus file is not written.
C12_DiscoveryFailureAborts ==
    DiscoveryRaised =>
       /\ pc = "failed"
       /\ ~ENABLED Next
       /\ \A k \in 1..Len(fetchLog) : fetchLog[k] = ListingUrl
       /\ legislation_data = <<>>
       /\ corpusWrites = 0
       /\ UntouchedCorpus

\* the second discovery failed after the first had written the URL file
C12_Witness ==
    /\ DiscoveryRaised
    /\ Len(fetchLog) = 2
    /\ urlFile \notin {<<>>, <<OldUrls>>}
    /\ corpusFile = <<OldCorpus>>

-----------------------------------------------------------------------------
(* Claims about the title, under SpecTitle *)

\* the text of the page's <title>
PageTitle(soup) == Children(soup, "title")[1].kids[1].text

DelimiterAt(s, k) == k + 2 <= Len(s) /\ SubSeq(s, k, k + 2) = <<" ", "-", " ">>

\* C14: the title of a returned document is the prefix of the page's <title>
\* text that ends before the first " - ": no " - " begins inside it, it is
\* followed by " - " or is the whole text, and it is the whole text when the
\* text holds no " - ".
C14_TitleCutAtFirstDelimiter ==
    (Called /\ response.ok /\ HasTitleString(response.soup)) =>
       /\ ~result.raised
       /\ LET full == PageTitle(response.soup)
              title == result.value.title
          IN  /\ IsPrefix(title, full)
              /\ \A k \in 1..Len(title) : ~DelimiterAt(full, k)
              /\ title = full \/ DelimiterAt(full, Len(title) + 1)
              /\ (\A k \in 1..Len(full) : ~DelimiterAt(full, k)) => title = full

\* a title with a hyphen inside the kept part and a delimiter after it
C14_Witness ==
    /\ pc = "returned"
    /\ PageTitle(response.soup) = <<"-", "t", " ", "-", " ">>
    /\ result.value.title = <<"-", "t">>

-----------------------------------------------------------------------------
(* Claims about the corpus file, under SpecJson *)

RECURSIVE Count(_, _)
Count(c, s) == IF s = <<>> THEN 0 ELSE (IF Head(s) = c THEN 1 ELSE 0) + Count(c, Tail(s))

\* the strings of a list of documents, one after the other
StringsOf(docs) ==
    Join([i \in 1..Len(docs) |->
            docs[i].title
            \o Join([k \in 1..Len(docs[i].content) |->
                       IF docs[i].content[k].kind = "text" THEN docs[i].content[k].text
                       ELSE docs[i].content[k].section \o docs[i].content[k].content])])

\* the literals of the values of a JSON text, one after the other
RECURSIVE LiteralsOf(_)
LiteralsOf(j) ==
    CASE j.type = "string" -> j.lit
      [] j.type = "array" -> Join([i \in 1..Len(j.items) |-> LiteralsOf(j.items[i])])
      [] OTHER -> Join([i \in 1..Len(j.members) |-> LiteralsOf(j.members[i].value)])

\* C16: reading back the corpus file gives the list of documents that was
\* written: the same documents in the same order, each with its title, url and
\* blocks in order; characters outside ASCII stand in the file as themselves,
\* not as escapes.
C16_RoundTrip ==
    /\ pc = "loaded" => result = Return(legislation_data)
    /\ corpusFile # <<>> =>
          /\ Count(SCedilla, LiteralsOf(corpusFile[1]))
                = Count(SCedilla, StringsOf(legislation_data))
          /\ Count("u015f", LiteralsOf(corpusFile[1])) = 0

\* two documents, the first with quotes, a backslash and a character outside
\* ASCII in a text block and a section, were written and read back
C16_Witness ==
    /\ pc = "loaded"
    /\ Len(legislation_data) = 2
    /\ legislation_data[1].title = <<"\"", "\\">>
    /\ Len(legislation_data[1].content) = 2
    /\ legislation_data[1].content[1] = TextBlock(<<"a", SCedilla>>)
    /\ ~result.raised
    /\ Len(result.value) = 2

-----------------------------------------------------------------------------
(* Claims about CreateInferenceModifier, under SpecModifier *)

KnownModelTypes == {"amazon", "claude", "jurassic", "command"}

\* the keys of the dict returned for a known model type
ModifierKeys(model_type) ==
    CASE model_type = "amazon" -> {"maxTokenCount", "temperature", "topP", "stopSequences"}
      [] model_type = "claude" ->
           {"max_tokens_to_sample", "temperature", "top_k", "top_p", "stop_sequences"}
      [] model_type = "jurassic" -> {"temperature", "topP", "maxTokens", "stopSequences"}
      [] OTHER -> {"temperature", "p", "k", "max_tokens", "stop_sequences"}

\* C20: called with model type amazon, claude, jurassic or command, with any
\* dict of parameters or none, CreateInferenceModifier returns a dict (of the
\* keys of that model type) and does not raise; called with any other model
\* type it raises ValueError and returns nothing.
C20_KnownTypesReturnOthersRaise ==
    modifierCall # NoCall =>
       IF modifierCall[1].model_type \in KnownModelTypes
       THEN /\ pc = "returned"
            /\ ~result.raised
            /\ DOMAIN result.value = ModifierKeys(modifierCall[1].model_type)
       ELSE /\ pc = "raised"
            /\ result = Raise("ValueError")

\* command was called without params and a dict was returned
C20_Witness ==
    /\ pc = "returned"
    /\ modifierCall # NoCall
    /\ modifierCall[1].model_type = "command"
    /\ modifierCall[1].params = <<>>
    /\ DOMAIN modifierCall[1].kwargs = {"temperature"}
    /\ DOMAIN result.value = {"temperature", "p", "k", "max_tokens", "stop_sequences"}

-----------------------------------------------------------------------------
(* Claims about extract_unique_urls, under SpecSources *)

\* the sources of the context documents
ContextSources ==
    {chainResponse[1].context[i].metadata.source : i \in 1..Len(chainResponse[1].context)}

\* the positions of the URLs in the string returned
UrlPositions == {i \in 1..Len(result.value) : i % 2 = 1}

\* C24: the string extract_unique_urls returns is made of URLs with "; "
\* between them; every source of the context occurs in it exactly once,
\* however many context documents have it, and it holds nothing else.
C24_UniqueSources ==
    chainResponse # NoCall =>
       /\ ~result.raised
       /\ \A i \in 1..Len(result.value) : i % 2 = 0 <=> result.value[i] = "; "
       /\ Len(result.value) = 0 \/ Len(result.value) % 2 = 1
       /\ {result.value[i] : i \in UrlPositions} = ContextSources
       /\ \A i, j \in UrlPositions : result.value[i] = result.value[j] => i = j

\* four context documents of two sources, one of them shared by three
C24_Witness ==
    /\ chainResponse # NoCall
    /\ Len(chainResponse[1].context) = 4
    /\ Cardinality(ContextSources) = 2
    /\ chainResponse[1].context[1] = chainResponse[1].context[3]
    /\ chainResponse[1].context[1] = chainResponse[1].context[4]
    /\ Len(result.value) = 3

-----------------------------------------------------------------------------
(* Claims about the source of the values of CreateInferenceModifier, under
   SpecModifier *)

\* the key of params an output key of a known model type is read from; the
\* stopSequences of amazon are read from none
SourceKeys(model_type) ==
    CASE model_type = "amazon" ->
           [maxTokenCount |-> "max_tokens", temperature |-> "temperature", topP |-> "top_p"]
      [] model_type = "claude" ->
           [max_tokens_to_sample |-> "max_tokens", temperature |-> "temperature",
            top_k |-> "top_k", top_p |-> "top_p", stop_sequences |-> "stop_sequences"]
      [] model_type = "jurassic" ->
           [temperature |-> "temperature", topP |-> "top_p", maxTokens |-> "max_tokens",
            stopSequences |-> "stop_sequences"]
      [] OTHER ->
           [temperature |-> "temperature", p |-> "top_p", k |-> "top_k",
            max_tokens |-> "max_tokens", stop_sequences |-> "stop_sequences"]

\* C30: for a known model type, when a params dict is passed every output
\* value is the value params holds for its key or, params holding none, a
\* value that is not the keyword argument's; the keyword arguments are the
\* source of the values only when params is None.
C30_KwargsOnlyWithoutParams ==
    (modifierCall # NoCall /\ modifierCall[1].model_type \in KnownModelTypes) =>
       LET call == modifierCall[1]
           source == SourceKeys(call.model_type)
       IN  /\ ~result.raised
           /\ \A out \in DOMAIN source :
                 IF call.params # <<>>
                 THEN /\ source[out] \in DOMAIN call.params[1]
                           => result.value[out] = call.params[1][source[out]]
                      /\ (source[out] \notin DOMAIN call.params[1]
                            /\ source[out] \in DOMAIN call.kwargs)
                           => result.value[out] # call.kwargs[source[out]]
                 ELSE source[out] \in DOMAIN call.kwargs
                           => result.value[out] = call.kwargs[source[out]]

\* claude was called with a params dict without top_k and with the keyword
\* arguments max_tokens and top_k
C30_Witness ==
    /\ pc = "returned"
    /\ modifierCall # NoCall
    /\ modifierCall[1].model_type = "claude"
    /\ modifierCall[1].params # <<>>
    /\ DOMAIN modifierCall[1].params[1] = {"max_tokens", "temperature"}
    /\ DOMAIN modifierCall[1].kwargs = {"max_tokens", "top_k"}
    /\ result.value.max_tokens_to_sample = "100"
    /\ result.value.top_k = "250"

=============================================================================
